---- MODULE Spec2Model ----
(***************************************************************************)
(* A model of the analysis-and-graph-maintenance engine of app.py:         *)
(* parse_python_file, analyze_directory, the shared graph directory_data   *)
(* with its lock, CodeFileHandler.reanalyze_file and the callers that      *)
(* replace the graph.                                                      *)
(*                                                                         *)
(* A path is a record [root, dirs, base, ext]: the analysed directory, the  *)
(* directory components below it, the file's stem and its extension.  A    *)
(* root-relative name ("pkg/b.py") and a base name ("b.py") are records    *)
(* [dirs, base, ext]; the base name has no directory components.  A node   *)
(* id is a record [file, member]: "pkg/b.py::f" is                         *)
(* [file |-> pkg/b.py, member |-> "f"], and a file id has member "".       *)
(***************************************************************************)
EXTENDS Integers, Sequences, FiniteSets, TLC

VARIABLES
    walk,            \* the entries os.walk yields below the root, in its order
    fs,              \* the content of every file of the tree: path -> content
    directory_data,  \* app.py:27, the shared graph (a dict)
    lock,            \* app.py:28, the owner of directory_data_lock, or NoThread
    pc,              \* the position of every thread
    loc,             \* the local variables of every thread
    notified,        \* the file_changed events emitted so far (app.py:141)
    committed,       \* directory_data as the last critical section left it
    ops,             \* the operations started so far
    file_observer,   \* app.py:47, the observer the global names, or NoObserver
    current_monitoring_directory,  \* app.py:48
    observers        \* the Observer objects created so far

\* the state of the file monitoring
mon == <<file_observer, current_monitoring_directory, observers>>

vars == <<walk, fs, directory_data, lock, pc, loc, notified, committed, ops, mon>>

----------------------------------------------------------------------------
(* Paths and ids *)

Path(root, dirs, base, ext) == [root |-> root, dirs |-> dirs, base |-> base, ext |-> ext]

\* os.path.basename(file_path)
basename(p) == [dirs |-> << >>, base |-> p.base, ext |-> p.ext]

\* a relative name that drops the directories
relpath_flat(p) == [dirs |-> << >>, base |-> p.base, ext |-> p.ext]

\* os.path.relpath(file_path, directory).replace('\\', '/') for a file below
\* the directory
relpath(p) == [dirs |-> p.dirs, base |-> p.base, ext |-> p.ext]

\* f"{rel_name}::{name}"; a file id is the relative name alone
MemberId(rel, name) == [file |-> rel, member |-> name]
FileId(rel) == [file |-> rel, member |-> ""]

\* the part of an id before "::"
IdPrefix(id) == FileId(id.file)

----------------------------------------------------------------------------
(* File contents: the text with the syntax tree ast.parse gives for it.    *)
(* ast is the sequence of the definition, return and call nodes of the     *)
(* tree in ast.walk order; within is the index of the nearest enclosing    *)
(* definition node (0 at module level).                                    *)

AstNode(kind, name, lineno, src, within) ==
    [kind |-> kind, name |-> name, lineno |-> lineno, src |-> src, within |-> within]

FunctionDef(name, lineno, src, within) == AstNode("FunctionDef", name, lineno, src, within)
ClassDef(name, lineno, src, within) == AstNode("ClassDef", name, lineno, src, within)
\* a call whose callee is a bare name or an attribute: name is that name
Call(name, lineno, within) == AstNode("Call", name, lineno, "", within)
\* a return statement: src is its source text, name is "value" or "bare"
Return(src, lineno, within) == AstNode("Return", "value", lineno, src, within)
BareReturn(lineno, within) == AstNode("Return", "bare", lineno, "return", within)

Content(text, ast) ==
    [exists |-> TRUE, decodes |-> TRUE, syntax_ok |-> TRUE, text |-> text, ast |-> ast]

\* def f(): return 1 / def g(): return f()
C_fg ==
    Content("def f():\n    return 1\ndef g():\n    return f()\n",
            << FunctionDef("f", 1, "def f():\n    return 1", 0),
               FunctionDef("g", 3, "def g():\n    return f()", 0),
               Return("return 1", 2, 1),
               Return("return f()", 4, 2),
               Call("f", 4, 2) >>)

\* of the functions only f is left, with a bare return, and a class has come
C_f ==
    Content("def f():\n    return\nclass K:\n    pass\n",
            << FunctionDef("f", 1, "def f():\n    return", 0),
               ClassDef("K", 3, "class K:\n    pass", 0),
               BareReturn(2, 1) >>)

\* a class with a method, and a module-level call before every definition
C_cls ==
    Content("f()\nclass K:\n    def m(self):\n        return self.f()\n",
            << ClassDef("K", 2, "class K:\n    def m(self):\n        return self.f()", 0),
               Call("f", 1, 0),
               FunctionDef("m", 3, "def m(self):\n        return self.f()", 1),
               Return("return self.f()", 4, 3),
               Call("f", 4, 3) >>)

\* a nested definition before a call of the outer function
C_nested ==
    Content("def outer():\n    def inner():\n        pass\n    return f()\n",
            << FunctionDef("outer", 1,
                   "def outer():\n    def inner():\n        pass\n    return f()", 0),
               FunctionDef("inner", 2, "def inner():\n        pass", 1),
               Return("return f()", 4, 1),
               Call("f", 4, 1) >>)

\* returns at two depths, one of them in a nested definition; in the order of
\* ast.walk the bare return of line 6 comes before the returns of lines 3 and 5
C_branch ==
    Content("def h(x):\n    def k():\n        return 2\n    if x:\n        return 1\n    return\n",
            << FunctionDef("h", 1,
                   "def h(x):\n    def k():\n        return 2\n    if x:\n        return 1\n    return", 0),
               FunctionDef("k", 2, "def k():\n        return 2", 1),
               BareReturn(6, 1),
               Return("return 2", 3, 2),
               Return("return 1", 5, 1) >>)

\* one name defined three times: two functions and a class
C_dup ==
    Content("def f():\n    return 1\ndef f():\n    return 2\nclass f:\n    pass\n",
            << FunctionDef("f", 1, "def f():\n    return 1", 0),
               FunctionDef("f", 3, "def f():\n    return 2", 0),
               ClassDef("f", 5, "class f:\n    pass", 0),
               Return("return 1", 2, 1),
               Return("return 2", 4, 2) >>)

\* f called from a block of a and twice from the body of b: ast.walk reaches
\* the two calls of b (lines 7 and 8) before the call of a (line 5)
C_calls ==
    Content("def f():\n    return 1\ndef a():\n    if 1:\n        return f()\ndef b():\n    f()\n    return f()\n",
            << FunctionDef("f", 1, "def f():\n    return 1", 0),
               FunctionDef("a", 3, "def a():\n    if 1:\n        return f()", 0),
               FunctionDef("b", 6, "def b():\n    f()\n    return f()", 0),
               Return("return 1", 2, 1),
               Return("return f()", 8, 3),
               Return("return f()", 5, 2),
               Call("f", 7, 3),
               Call("f", 8, 3),
               Call("f", 5, 2) >>)

\* the end-to-end scenario of the specification
C_util ==
    Content("def helper(): return 42",
            << FunctionDef("helper", 1, "def helper(): return 42", 0),
               Return("return 42", 1, 1) >>)

C_main ==
    Content("from util import helper\ndef run(): return helper()",
            << FunctionDef("run", 2, "def run(): return helper()", 0),
               Return("return helper()", 2, 1),
               Call("helper", 2, 1) >>)

\* a zero-length file: valid, with no statement
C_empty == Content("", << >>)

\* invalid syntax; bytes that are not UTF-8; a file that cannot be opened
C_syntax ==
    [exists |-> TRUE, decodes |-> TRUE, syntax_ok |-> FALSE, text |-> "def (:\n", ast |-> << >>]
C_binary ==
    [exists |-> TRUE, decodes |-> FALSE, syntax_ok |-> FALSE, text |-> "\\xff", ast |-> << >>]
C_missing ==
    [exists |-> FALSE, decodes |-> FALSE, syntax_ok |-> FALSE, text |-> "", ast |-> << >>]

----------------------------------------------------------------------------
(* Sequence helpers *)

Range(s) == {s[i] : i \in DOMAIN s}

\* the list comprehension [x for x in s if Keep(x)]
Filter(s, Keep(_)) == SelectSeq(s, Keep)

\* the positions of the definitions of the module level only
Positions_toplevel(ast, kind, i) ==
    SelectSeq([k \in 1..Len(ast) |-> k], LAMBDA k : k >= i /\ ast[k].kind = kind /\ ast[k].within = 0)

\* the positions of s that hold a node of the given kind, in order
RECURSIVE Positions(_, _, _)
Positions(ast, kind, i) ==
    IF i > Len(ast) THEN << >>
    ELSE (IF ast[i].kind = kind THEN <<i>> ELSE << >>) \o Positions(ast, kind, i + 1)

\* whether node j lies inside definition node i (ast.walk(node) reaches it)
RECURSIVE Inside(_, _, _)
Inside(ast, i, j) ==
    IF j = 0 THEN FALSE
    ELSE IF ast[j].within = i THEN TRUE
    ELSE Inside(ast, i, ast[j].within)

----------------------------------------------------------------------------
(* parse_python_file, app.py:583-622 *)

\* the placeholder in the wording of the specification
NoneSentinel_bracketed == "<none>"

\* app.py:601
NoneSentinel == "None"

\* app.py:593-601: the returns of the function at position i
RECURSIVE ReturnsOf(_, _, _)
ReturnsOf(ast, i, j) ==
    IF j > Len(ast) THEN << >>
    ELSE (IF ast[j].kind = "Return" /\ Inside(ast, i, j)
          THEN (IF ast[j].name = "value"
                THEN (IF ast[j].src # "" THEN <<ast[j].src>> ELSE << >>)
                ELSE <<NoneSentinel>>)
          ELSE << >>)
         \o ReturnsOf(ast, i, j + 1)

\* app.py:603-608
FunctionRecord(file_path, ast, i) ==
    [name |-> ast[i].name, code |-> ast[i].src,
     returns |-> ReturnsOf(ast, i, 1), file |-> basename(file_path)]

\* app.py:613-617
ClassRecord(file_path, ast, i) ==
    [name |-> ast[i].name, code |-> ast[i].src, file |-> basename(file_path)]

Unparseable == [raised |-> FALSE, functions |-> << >>, classes |-> << >>, content |-> ""]
Raised == [raised |-> TRUE, functions |-> << >>, classes |-> << >>, content |-> ""]

\* a parser that keeps its lists between calls: from the second call on the
\* records of the call before are still in them
parse_python_file_keeping(file_path, c) ==
    IF ~c.exists THEN Raised
    ELSE IF ~c.decodes \/ ~c.syntax_ok THEN Unparseable
    ELSE LET fpos == Positions(c.ast, "FunctionDef", 1)
             cpos == Positions(c.ast, "ClassDef", 1)
             functions == [k \in DOMAIN fpos |-> FunctionRecord(file_path, c.ast, fpos[k])]
             classes == [k \in DOMAIN cpos |-> ClassRecord(file_path, c.ast, cpos[k])]
         IN  [raised |-> FALSE,
              functions |-> IF ops > 1 THEN functions \o functions ELSE functions,
              classes |-> IF ops > 1 THEN classes \o classes ELSE classes,
              content |-> c.text]

\* c is what open(file_path).read() and ast.parse meet: an OSError of open()
\* is not among the exceptions line 620 catches
parse_python_file(file_path, c) ==
    IF ~c.exists THEN Raised
    ELSE IF ~c.decodes \/ ~c.syntax_ok THEN Unparseable
    ELSE LET fpos == Positions(c.ast, "FunctionDef", 1)
             cpos == Positions(c.ast, "ClassDef", 1)
         IN  [raised |-> FALSE,
              functions |-> [k \in DOMAIN fpos |-> FunctionRecord(file_path, c.ast, fpos[k])],
              classes |-> [k \in DOMAIN cpos |-> ClassRecord(file_path, c.ast, cpos[k])],
              content |-> c.text]

\* a check that never skips
NotContent_never(content) == FALSE

\* `not content` at app.py:88, 660 and 730
NotContent(content) == content = ""

----------------------------------------------------------------------------
(* Graph nodes and edges *)

FileNode(id, name, content, file_path) ==
    [id |-> id, name |-> name, type |-> "file", code |-> content, file_path |-> file_path]

FunctionNode(id, func, returns, called_by, file, file_path) ==
    [id |-> id, name |-> func.name, type |-> "function", code |-> func.code,
     returns |-> returns, called_by |-> called_by, file |-> file, file_path |-> file_path]

ClassNode(id, cls, file, file_path) ==
    [id |-> id, name |-> cls.name, type |-> "class", code |-> cls.code,
     file |-> file, file_path |-> file_path]

Edge(source, target) == [source |-> source, target |-> target]

Graph(nodes, edges) == [nodes |-> nodes, edges |-> edges]
EmptyGraph == Graph(<< >>, << >>)

\* directory_data = {} at app.py:27: a dict with no key
EmptyDict == [k \in {} |-> << >>]

\* d.get(key, default)
Get(d, key, default) == IF key \in DOMAIN d THEN d[key] ELSE default

----------------------------------------------------------------------------
(* analyze_directory, app.py:624-762 *)

FileCap == 50

skip_dirs == {".git", ".venv", "venv", "__pycache__", ".mypy_cache", ".pytest_cache", "node_modules"}

\* roots that os.walk cannot scan: a directory that is not there, and one the
\* process may not list
Unscannable == {"missing", "unreadable"}

\* a listing that does not notice that the root cannot be scanned
ListFiles_blind(w) ==
    LET Keep(p) == (\A i \in DOMAIN p.dirs : p.dirs[i] \notin skip_dirs) /\ p.ext = ".py"
    IN  Filter(w, Keep)

\* app.py:633-640; os.walk (onerror=None) yields nothing for a root it cannot scan
ListFiles(w) ==
    LET Keep(p) ==
            /\ p.root \notin Unscannable
            /\ \A i \in DOMAIN p.dirs : p.dirs[i] \notin skip_dirs
            /\ p.ext = ".py"
    IN  Filter(w, Keep)

\* a cap that is off by one
CapFiles_late(files) == IF Len(files) > FileCap + 1 THEN SubSeq(files, 1, FileCap + 1) ELSE files

\* app.py:644-646
CapFiles(files) == IF Len(files) > FileCap THEN SubSeq(files, 1, FileCap) ELSE files

\* d[key] = value on a dict
Put(d, key, value) == (key :> value) @@ d

\* app.py:664-668
RECURSIVE CollectFunctions(_, _, _, _)
CollectFunctions(all_functions, rel_name, functions, k) ==
    IF k > Len(functions) THEN all_functions
    ELSE CollectFunctions(
             Put(all_functions, MemberId(rel_name, functions[k].name),
                 [name |-> functions[k].name, code |-> functions[k].code,
                  returns |-> functions[k].returns, file |-> rel_name,
                  called_by |-> << >>]),
             rel_name, functions, k + 1)

\* the first pass, app.py:652-671; st is the loop's state: the index i of the
\* file at hand and all_functions so far.  A file whose parse raises or whose
\* content is empty is skipped.
RECURSIVE FirstPass(_, _, _)
FirstPass(st, files, read) ==
    IF st.i > Len(files) THEN st.all_functions
    ELSE LET file_path == files[st.i]
             parsed == parse_python_file(file_path, read[file_path])
         IN  FirstPass([i |-> st.i + 1,
                        all_functions |->
                            IF parsed.raised \/ NotContent(parsed.content)
                            THEN st.all_functions
                            ELSE CollectFunctions(st.all_functions, relpath(file_path),
                                                  parsed.functions, 1)],
                       files, read)

\* app.py:684-687: line -> name, a later definition on the same line wins
RECURSIVE FuncLineMap(_, _, _)
FuncLineMap(m, ast, i) ==
    IF i > Len(ast) THEN m
    ELSE FuncLineMap(IF ast[i].kind = "FunctionDef" THEN Put(m, ast[i].lineno, ast[i].name)
                     ELSE m, ast, i + 1)

\* the name at the least definition line <= call_line: the first function above
CurrentFunc_first(func_line_map, call_line) ==
    LET before == {l \in DOMAIN func_line_map : l <= call_line /\ l > 0}
    IN  IF before = {} THEN ""
        ELSE func_line_map[CHOOSE l \in before : \A m \in before : l <= m]

\* app.py:703-711: the name at the greatest definition line <= call_line, or ""
CurrentFunc(func_line_map, call_line) ==
    LET before == {l \in DOMAIN func_line_map : l <= call_line /\ l > 0}
    IN  IF before = {} THEN ""
        ELSE func_line_map[CHOOSE l \in before : \A m \in before : m <= l]

\* linking only within the file of the call
LinkCall_samefile(all_functions, rel_name, func_line_map, call) ==
    LET current_func == CurrentFunc(func_line_map, call.lineno)
        caller_id == MemberId(rel_name, current_func)
    IN  [func_id \in DOMAIN all_functions |->
            IF /\ call.name # ""
               /\ all_functions[func_id].name = call.name
               /\ func_id.file = rel_name
               /\ current_func # ""
               /\ caller_id \in DOMAIN all_functions
               /\ caller_id \notin Range(all_functions[func_id].called_by)
            THEN [all_functions[func_id] EXCEPT !.called_by = Append(@, caller_id)]
            ELSE all_functions[func_id]]

\* linking that records a caller once for each of its calls
LinkCall_repeat(all_functions, rel_name, func_line_map, call) ==
    LET current_func == CurrentFunc(func_line_map, call.lineno)
        caller_id == MemberId(rel_name, current_func)
    IN  [func_id \in DOMAIN all_functions |->
            IF /\ call.name # ""
               /\ all_functions[func_id].name = call.name
               /\ current_func # ""
               /\ caller_id \in DOMAIN all_functions
            THEN [all_functions[func_id] EXCEPT !.called_by = Append(@, caller_id)]
            ELSE all_functions[func_id]]

\* app.py:698-717 for one call
LinkCall(all_functions, rel_name, func_line_map, call) ==
    LET current_func == CurrentFunc(func_line_map, call.lineno)
        caller_id == MemberId(rel_name, current_func)
    IN  [func_id \in DOMAIN all_functions |->
            IF /\ call.name # ""
               /\ all_functions[func_id].name = call.name
               /\ current_func # ""
               /\ caller_id \in DOMAIN all_functions
               /\ caller_id \notin Range(all_functions[func_id].called_by)
            THEN [all_functions[func_id] EXCEPT !.called_by = Append(@, caller_id)]
            ELSE all_functions[func_id]]

RECURSIVE LinkCalls(_, _, _, _, _)
LinkCalls(all_functions, rel_name, func_line_map, ast, j) ==
    IF j > Len(ast) THEN all_functions
    ELSE LinkCalls(IF ast[j].kind = "Call"
                   THEN LinkCall(all_functions, rel_name, func_line_map, ast[j])
                   ELSE all_functions,
                   rel_name, func_line_map, ast, j + 1)

\* the second pass, app.py:675-720, with the same loop state: a file that
\* cannot be read or parsed raises inside the try and is skipped
RECURSIVE SecondPass(_, _, _)
SecondPass(st, files, read) ==
    IF st.i > Len(files) THEN st.all_functions
    ELSE LET c == read[files[st.i]]
         IN  SecondPass([i |-> st.i + 1,
                         all_functions |->
                             IF ~c.exists \/ ~c.decodes \/ ~c.syntax_ok
                             THEN st.all_functions
                             ELSE LinkCalls(st.all_functions, relpath(files[st.i]),
                                            FuncLineMap(EmptyDict, c.ast, 1), c.ast, 1)],
                        files, read)

\* function nodes that take returns and called_by from the parse at hand
RECURSIVE FunctionNodes_reparsed(_, _, _, _, _)
FunctionNodes_reparsed(all_functions, rel_name, file_path, functions, k) ==
    IF k > Len(functions) THEN << >>
    ELSE LET func == functions[k]
             func_id == MemberId(rel_name, func.name)
         IN  <<FunctionNode(func_id, func, Get(func, "returns", << >>),
                            Get(func, "called_by", << >>), rel_name, file_path)>>
             \o FunctionNodes_reparsed(all_functions, rel_name, file_path, functions, k + 1)

\* app.py:735-748
RECURSIVE FunctionNodes(_, _, _, _, _)
FunctionNodes(all_functions, rel_name, file_path, functions, k) ==
    IF k > Len(functions) THEN << >>
    ELSE LET func == functions[k]
             func_id == MemberId(rel_name, func.name)
             func_data == Get(all_functions, func_id, func)
         IN  <<FunctionNode(func_id, func, Get(func_data, "returns", << >>),
                            Get(func_data, "called_by", << >>), rel_name, file_path)>>
             \o FunctionNodes(all_functions, rel_name, file_path, functions, k + 1)

\* app.py:750-760
ClassNodes(rel_name, file_path, classes) ==
    [k \in DOMAIN classes |->
        ClassNode(MemberId(rel_name, classes[k].name), classes[k], rel_name, file_path)]

\* edges that also draw the first recorded caller of each member
MemberEdges_with_calls(file_id, members) ==
    LET HasCaller(m) == Get(m, "called_by", << >>) # << >>
        called == SelectSeq(members, HasCaller)
    IN  [k \in DOMAIN members |-> Edge(file_id, members[k].id)]
        \o [k \in DOMAIN called |-> Edge(called[k].called_by[1], called[k].id)]

\* the edges appended with a sequence of member nodes
MemberEdges(file_id, members) == [k \in DOMAIN members |-> Edge(file_id, members[k].id)]

\* the third pass, app.py:724-760; the loop's state holds nodes and edges so
\* far.  parse_python_file is called outside any try, so its exception ends
\* the loop and leaves analyze_directory.
RECURSIVE ThirdPass(_, _, _, _)
ThirdPass(st, all_functions, files, read) ==
    IF st.i > Len(files) \/ st.raised THEN st
    ELSE LET file_path == files[st.i]
             rel_name == relpath(file_path)
             file_id == FileId(rel_name)
             parsed == parse_python_file(file_path, read[file_path])
             members == FunctionNodes(all_functions, rel_name, file_path, parsed.functions, 1)
                        \o ClassNodes(rel_name, file_path, parsed.classes)
         IN  ThirdPass(
                 IF parsed.raised THEN [st EXCEPT !.raised = TRUE]
                 ELSE IF NotContent(parsed.content) THEN [st EXCEPT !.i = @ + 1]
                 ELSE [i |-> st.i + 1, raised |-> FALSE,
                       nodes |-> st.nodes
                                 \o <<FileNode(file_id, rel_name, parsed.content, file_path)>>
                                 \o members,
                       edges |-> st.edges \o MemberEdges(file_id, members)],
                 all_functions, files, read)

\* analyze_directory(directory): w is what os.walk yields, read1..read3 what the
\* three passes find in the files.  The result is the returned graph, or
\* raised = TRUE when an exception leaves the function.
analyze_directory(w, read1, read2, read3) ==
    LET files == CapFiles(ListFiles(w))
        collected == FirstPass([i |-> 1, all_functions |-> EmptyDict], files, read1)
        all_functions == SecondPass([i |-> 1, all_functions |-> collected], files, read2)
        built == ThirdPass([i |-> 1, raised |-> FALSE, nodes |-> << >>, edges |-> << >>],
                           all_functions, files, read3)
    IN  [raised |-> built.raised, graph |-> Graph(built.nodes, built.edges)]

----------------------------------------------------------------------------
(* Bounds, threads and the trees of the model *)

NThreads == 2
MaxOps == 3

Threads == 1..NThreads
NoThread == 0

Root == "ws"
NoPath == Path("", << >>, "", "")

\* None for file_observer and for current_monitoring_directory, app.py:47-48
NoObserver == 0
NoDir == ""

\* no monitoring has been started
MonInit ==
    /\ file_observer = NoObserver
    /\ current_monitoring_directory = NoDir
    /\ observers = << >>

A_py == Path(Root, << >>, "a", ".py")
Pkg_a_py == Path(Root, <<"pkg">>, "a", ".py")

\* the tree the store is exercised on: a.py and pkg/a.py, both defining f and g
StoreWalk == <<A_py, Pkg_a_py>>
StoreFs == [p \in Range(StoreWalk) |-> C_fg]

\* what a modification may leave in a file
EditContents == {C_f, C_syntax, C_missing}

\* the objects a graph is made of: the dict, its two lists and the dicts in them
ObjectKinds == {"dict", "nodes", "edges", "items"}

\* an object is named by the thread whose call allocated it and its kind; the
\* objects reachable from the global directory_data are named by NoThread
ObjectsOf(owner) == {<<owner, kind>> : kind \in ObjectKinds}
StoreObjs == ObjectsOf(NoThread)

\* objs: the objects the snapshot handed to the caller is made of; directory:
\* the directory the thread is to monitor
Locals ==
    [file_path |-> NoPath, parsed |-> Unparseable, new_data |-> EmptyGraph,
     snapshot |-> EmptyDict, merged |-> EmptyDict, objs |-> {}, directory |-> NoDir]

Init ==
    /\ walk = StoreWalk
    /\ fs = StoreFs
    /\ directory_data = EmptyDict
    /\ lock = NoThread
    /\ pc = [t \in Threads |-> "idle"]
    /\ loc = [t \in Threads |-> Locals]
    /\ notified = [t \in Threads |-> << >>]
    /\ committed = EmptyDict
    /\ ops = 0
    /\ MonInit

Goto(t, label) == pc' = [pc EXCEPT ![t] = label]

\* a thread (a watcher thread, a request) takes up a new operation once its
\* last one is over; what that one left behind is dropped
Begin(t) ==
    /\ pc[t] \in {"idle", "done"}
    /\ ops < MaxOps
    /\ ops' = ops + 1
    /\ notified' = [notified EXCEPT ![t] = << >>]

Fresh(t, locals) == loc' = [loc EXCEPT ![t] = locals]

\* threading.RLock: acquire blocks while another thread owns the lock
Acquire(t) == lock = NoThread /\ lock' = t

\* leaving the with block: the critical section ends
Release(t) == lock' = NoThread /\ committed' = directory_data

----------------------------------------------------------------------------
(* CodeFileHandler, app.py:64-148 *)

\* a file of the watched tree is written and on_modified (app.py:67-76) starts
\* a thread on reanalyze_file
on_modified(t, p, c) ==
    /\ Begin(t)
    /\ p.ext = ".py"
    /\ c # fs[p]
    /\ fs' = [fs EXCEPT ![p] = c]
    /\ Fresh(t, [Locals EXCEPT !.file_path = p])
    /\ Goto(t, "R_parse")
    /\ UNCHANGED <<mon, walk, directory_data, lock, committed>>

\* app.py:81-89: parse outside the lock; an exception goes to the handler of
\* line 147, an empty content returns
R_parse(t) ==
    /\ pc[t] = "R_parse"
    /\ LET parsed == parse_python_file(loc[t].file_path, fs[loc[t].file_path])
       IN  /\ loc' = [loc EXCEPT ![t].parsed = parsed]
           /\ IF parsed.raised THEN Goto(t, "R_except")
              ELSE IF NotContent(parsed.content) THEN Goto(t, "done")
              ELSE Goto(t, "R_lock")
    /\ UNCHANGED <<mon, walk, fs, directory_data, lock, notified, committed, ops>>

\* app.py:92
R_lock(t) ==
    /\ pc[t] = "R_lock"
    /\ Acquire(t)
    /\ Goto(t, "R_init")
    /\ UNCHANGED <<mon, walk, fs, directory_data, loc, notified, committed, ops>>

\* app.py:93-95
R_init(t) ==
    /\ pc[t] = "R_init"
    /\ directory_data' =
          IF "nodes" \notin DOMAIN directory_data \/ "edges" \notin DOMAIN directory_data
          THEN Put(Put(directory_data, "nodes", << >>), "edges", << >>)
          ELSE directory_data
    /\ Goto(t, "R_nodes")
    /\ UNCHANGED <<mon, walk, fs, lock, loc, notified, committed, ops>>

\* app.py:97-98
R_nodes(t) ==
    /\ pc[t] = "R_nodes"
    /\ LET filename == basename(loc[t].file_path)
           Keep(n) == ~(Get(n, "file", NoPath) = filename \/ n.id = FileId(filename))
       IN  directory_data' = Put(directory_data, "nodes", Filter(directory_data["nodes"], Keep))
    /\ Goto(t, "R_edges")
    /\ UNCHANGED <<mon, walk, fs, lock, loc, notified, committed, ops>>

\* a merge that leaves the edges of the file in place
R_edges_kept(t) ==
    /\ pc[t] = "R_edges"
    /\ Goto(t, "R_file")
    /\ UNCHANGED <<mon, walk, fs, directory_data, lock, loc, notified, committed, ops>>

\* app.py:99-100
R_edges(t) ==
    /\ pc[t] = "R_edges"
    /\ LET filename == basename(loc[t].file_path)
           Keep(e) == e.source # FileId(filename)
       IN  directory_data' = Put(directory_data, "edges", Filter(directory_data["edges"], Keep))
    /\ Goto(t, "R_file")
    /\ UNCHANGED <<mon, walk, fs, lock, loc, notified, committed, ops>>

\* app.py:103-109
R_file(t) ==
    /\ pc[t] = "R_file"
    /\ LET filename == basename(loc[t].file_path)
       IN  directory_data' =
              Put(directory_data, "nodes",
                  Append(directory_data["nodes"],
                         FileNode(FileId(filename), filename, loc[t].parsed.content,
                                  loc[t].file_path)))
    /\ Goto(t, "R_funcs")
    /\ UNCHANGED <<mon, walk, fs, lock, loc, notified, committed, ops>>

\* the function nodes of app.py:112-123
MergedFunctionNodes(filename, file_path, functions) ==
    [k \in DOMAIN functions |->
        FunctionNode(MemberId(filename, functions[k].name), functions[k],
                     Get(functions[k], "returns", << >>), << >>, filename, file_path)]

\* app.py:112-124
R_funcs(t) ==
    /\ pc[t] = "R_funcs"
    /\ LET filename == basename(loc[t].file_path)
           members == MergedFunctionNodes(filename, loc[t].file_path, loc[t].parsed.functions)
       IN  directory_data' =
              Put(Put(directory_data, "nodes", directory_data["nodes"] \o members),
                  "edges", directory_data["edges"] \o MemberEdges(FileId(filename), members))
    /\ Goto(t, "R_classes")
    /\ UNCHANGED <<mon, walk, fs, lock, loc, notified, committed, ops>>

\* app.py:126-136
R_classes(t) ==
    /\ pc[t] = "R_classes"
    /\ LET filename == basename(loc[t].file_path)
           members == ClassNodes(filename, loc[t].file_path, loc[t].parsed.classes)
       IN  directory_data' =
              Put(Put(directory_data, "nodes", directory_data["nodes"] \o members),
                  "edges", directory_data["edges"] \o MemberEdges(FileId(filename), members))
    /\ Goto(t, "R_unlock")
    /\ UNCHANGED <<mon, walk, fs, lock, loc, notified, committed, ops>>

\* the end of the with block of app.py:92; merged remembers the graph the
\* merge left
R_unlock(t) ==
    /\ pc[t] = "R_unlock"
    /\ Release(t)
    /\ loc' = [loc EXCEPT ![t].merged = directory_data]
    /\ Goto(t, "R_emit")
    /\ UNCHANGED <<mon, walk, fs, directory_data, notified, ops>>

\* app.py:138-145: the payload is the global directory_data, read without the lock
R_emit(t) ==
    /\ pc[t] = "R_emit"
    /\ notified' = [notified EXCEPT ![t] =
          Append(@, [filename |-> basename(loc[t].file_path), type |-> "modified",
                     data |-> directory_data])]
    /\ Goto(t, "done")
    /\ UNCHANGED <<mon, walk, fs, directory_data, lock, loc, committed, ops>>

\* app.py:147-148: the exception is logged and the thread ends
R_except(t) ==
    /\ pc[t] = "R_except"
    /\ Goto(t, "done")
    /\ UNCHANGED <<mon, walk, fs, directory_data, lock, loc, notified, committed, ops>>

----------------------------------------------------------------------------
(* set_directory_data, app.py:206-209, and its callers *)

\* switch_workspace, app.py:1313 (also 986, 1023, 1374, 1507): the full build,
\* then set_directory_data(analyzed); an exception of the build leaves the
\* handler without a replacement
full_build(t) ==
    /\ Begin(t)
    /\ LET analyzed == analyze_directory(walk, fs, fs, fs)
       IN  IF analyzed.raised
           THEN Goto(t, "done") /\ Fresh(t, Locals)
           ELSE Goto(t, "S_lock") /\ Fresh(t, [Locals EXCEPT !.new_data = analyzed.graph])
    /\ UNCHANGED <<mon, walk, fs, directory_data, lock, committed>>

\* index, app.py:1021, 1031, 1034: set_directory_data({"nodes": [], "edges": []})
replace_empty(t) ==
    /\ Begin(t)
    /\ Fresh(t, [Locals EXCEPT !.new_data = EmptyGraph])
    /\ Goto(t, "S_lock")
    /\ UNCHANGED <<mon, walk, fs, directory_data, lock, committed>>

\* app.py:208
S_lock(t) ==
    /\ pc[t] = "S_lock"
    /\ Acquire(t)
    /\ Goto(t, "S_assign")
    /\ UNCHANGED <<mon, walk, fs, directory_data, loc, notified, committed, ops>>

\* a replacement that keeps the old graph when the new one has no node
S_assign_update(t) ==
    /\ pc[t] = "S_assign"
    /\ directory_data' = IF loc[t].new_data.nodes = << >> THEN directory_data ELSE loc[t].new_data
    /\ Goto(t, "S_unlock")
    /\ UNCHANGED <<mon, walk, fs, lock, loc, notified, committed, ops>>

\* app.py:209
S_assign(t) ==
    /\ pc[t] = "S_assign"
    /\ directory_data' = loc[t].new_data
    /\ Goto(t, "S_unlock")
    /\ UNCHANGED <<mon, walk, fs, lock, loc, notified, committed, ops>>

\* the end of the with block; a caller that goes on to start_file_monitoring
\* (app.py:1322) does so next
S_unlock(t) ==
    /\ pc[t] = "S_unlock"
    /\ Release(t)
    /\ Goto(t, IF loc[t].directory = NoDir THEN "done" ELSE "M_check")
    /\ UNCHANGED <<mon, walk, fs, directory_data, loc, notified, ops>>

----------------------------------------------------------------------------
(* get_directory_data_snapshot, app.py:199-204 *)

\* json.loads(json.dumps(d)): a fresh dict with a copy of every value
JsonCopy(d) == [k \in DOMAIN d |-> d[k]]

snapshot_begin(t) ==
    /\ Begin(t)
    /\ Fresh(t, Locals)
    /\ Goto(t, "G_lock")
    /\ UNCHANGED <<mon, walk, fs, directory_data, lock, committed>>

\* a snapshot that does not wait for the lock
G_lock_free(t) ==
    /\ pc[t] = "G_lock"
    /\ Goto(t, "G_copy")
    /\ UNCHANGED <<mon, walk, fs, directory_data, lock, loc, notified, committed, ops>>

\* app.py:201
G_lock(t) ==
    /\ pc[t] = "G_lock"
    /\ Acquire(t)
    /\ Goto(t, "G_copy")
    /\ UNCHANGED <<mon, walk, fs, directory_data, loc, notified, committed, ops>>

\* a snapshot that hands out the store's own dict
G_copy_alias(t) ==
    /\ pc[t] = "G_copy"
    /\ loc' = [loc EXCEPT ![t].snapshot = directory_data, ![t].objs = StoreObjs]
    /\ Goto(t, "G_unlock")
    /\ UNCHANGED <<mon, walk, fs, directory_data, lock, notified, committed, ops>>

\* app.py:202: json.loads builds every object of its result anew
G_copy(t) ==
    /\ pc[t] = "G_copy"
    /\ loc' = [loc EXCEPT ![t].snapshot = JsonCopy(directory_data), ![t].objs = ObjectsOf(t)]
    /\ Goto(t, "G_unlock")
    /\ UNCHANGED <<mon, walk, fs, directory_data, lock, notified, committed, ops>>

G_unlock(t) ==
    /\ pc[t] = "G_unlock"
    /\ Release(t)
    /\ Goto(t, "done")
    /\ UNCHANGED <<mon, walk, fs, directory_data, loc, notified, ops>>

----------------------------------------------------------------------------
(* start_file_monitoring and stop_file_monitoring, app.py:150-172 *)

\* Observer(): a thread object that has not been started
NewObserver == [started |-> FALSE, stopped |-> FALSE, alive |-> FALSE, watches |-> {}]

\* the observers whose thread runs
Running == {o \in DOMAIN observers : observers[o].alive}

\* where a thread goes once stop_file_monitoring has returned: on into
\* start_file_monitoring (app.py:157), or back to the caller of stop
AfterStop(t) == IF loc[t].directory = NoDir THEN "done" ELSE "M_dir"

\* a request reaches start_file_monitoring(directory), app.py:1028, 1322, 1513, 1596
start_file_monitoring(t, directory) ==
    /\ Begin(t)
    /\ Fresh(t, [Locals EXCEPT !.directory = directory])
    /\ Goto(t, "M_check")
    /\ UNCHANGED <<mon, walk, fs, directory_data, lock, committed>>

\* stop_file_monitoring() on its own, app.py:1877
stop_file_monitoring(t) ==
    /\ Begin(t)
    /\ Fresh(t, Locals)
    /\ Goto(t, "M_check")
    /\ UNCHANGED <<mon, walk, fs, directory_data, lock, committed>>

\* app.py:169
M_check(t) ==
    /\ pc[t] = "M_check"
    /\ IF file_observer # NoObserver /\ observers[file_observer].alive
       THEN Goto(t, "M_stop")
       ELSE Goto(t, AfterStop(t))
    /\ UNCHANGED <<mon, walk, fs, directory_data, lock, loc, notified, committed, ops>>

\* app.py:170: stop() of the observer the global names now; its thread ends
M_stop(t) ==
    /\ pc[t] = "M_stop"
    /\ observers' = [observers EXCEPT ![file_observer].stopped = TRUE,
                                       ![file_observer].alive = FALSE]
    /\ Goto(t, "M_join")
    /\ UNCHANGED <<file_observer, current_monitoring_directory, walk, fs, directory_data, lock,
                   loc, notified, committed, ops>>

\* app.py:171: join() of the observer the global names now.  It returns when
\* that thread has ended; for a thread that was never started it raises
\* RuntimeError, which leaves stop_file_monitoring and, line 155 being outside
\* the try, start_file_monitoring
M_join(t) ==
    /\ pc[t] = "M_join"
    /\ ~observers[file_observer].alive
    /\ IF observers[file_observer].started THEN Goto(t, AfterStop(t)) ELSE Goto(t, "done")
    /\ UNCHANGED <<mon, walk, fs, directory_data, lock, loc, notified, committed, ops>>

\* app.py:158
M_dir(t) ==
    /\ pc[t] = "M_dir"
    /\ current_monitoring_directory' = loc[t].directory
    /\ Goto(t, "M_new")
    /\ UNCHANGED <<file_observer, observers, walk, fs, directory_data, lock, loc, notified,
                   committed, ops>>

\* app.py:159
M_new(t) ==
    /\ pc[t] = "M_new"
    /\ observers' = Append(observers, NewObserver)
    /\ file_observer' = Len(observers) + 1
    /\ Goto(t, "M_schedule")
    /\ UNCHANGED <<current_monitoring_directory, walk, fs, directory_data, lock, loc, notified,
                   committed, ops>>

\* app.py:160: the watch is added to the observer the global names now
M_schedule(t) ==
    /\ pc[t] = "M_schedule"
    /\ observers' = [observers EXCEPT ![file_observer].watches = @ \cup {loc[t].directory}]
    /\ Goto(t, "M_start")
    /\ UNCHANGED <<file_observer, current_monitoring_directory, walk, fs, directory_data, lock,
                   loc, notified, committed, ops>>

\* app.py:161-164: start() of the observer the global names now; for a thread
\* started before it raises RuntimeError, which line 163 catches; a thread
\* stopped before its start ends at once
M_start(t) ==
    /\ pc[t] = "M_start"
    /\ observers' =
          IF observers[file_observer].started THEN observers
          ELSE [observers EXCEPT ![file_observer].started = TRUE,
                                 ![file_observer].alive = ~observers[file_observer].stopped]
    /\ Goto(t, "done")
    /\ UNCHANGED <<file_observer, current_monitoring_directory, walk, fs, directory_data, lock,
                   loc, notified, committed, ops>>

Monitoring(t) ==
    \/ M_check(t) \/ M_stop(t) \/ M_join(t) \/ M_dir(t) \/ M_new(t) \/ M_schedule(t)
    \/ M_start(t)

\* the directories of two workspaces
OtherRoot == "ws2"
MonitoredDirs == {Root, OtherRoot}

NextMonitor ==
    \E t \in Threads :
        \/ \E directory \in MonitoredDirs : start_file_monitoring(t, directory)
        \/ stop_file_monitoring(t)
        \/ Monitoring(t)

\* requests that start and stop the monitoring
SpecMonitor == Init /\ [][NextMonitor]_vars

----------------------------------------------------------------------------
(* create_new_project, app.py:1526-1596 *)

ProjectRoot == "project"
ProjectWalk == <<Path(ProjectRoot, << >>, "main", ".py"), Path(ProjectRoot, << >>, "README", ".md")>>
\* app.py:1552-1556: main.py is written with no content
ProjectFs == [p \in Range(ProjectWalk) |-> C_empty]

\* app.py:1592, right-hand side
project_build(t) ==
    /\ Begin(t)
    /\ Fresh(t, [Locals EXCEPT !.new_data =
                  analyze_directory(ProjectWalk, ProjectFs, ProjectFs, ProjectFs).graph])
    /\ Goto(t, "P_assign")
    /\ UNCHANGED <<mon, walk, fs, directory_data, lock, committed>>

\* app.py:1591-1592: the global is assigned outside set_directory_data, with no lock
P_assign(t) ==
    /\ pc[t] = "P_assign"
    /\ directory_data' = loc[t].new_data
    /\ Goto(t, "done")
    /\ UNCHANGED <<mon, walk, fs, lock, loc, notified, committed, ops>>

----------------------------------------------------------------------------

Reanalyze(t) ==
    \/ R_parse(t) \/ R_lock(t) \/ R_init(t) \/ R_nodes(t) \/ R_edges(t) \/ R_file(t)
    \/ R_funcs(t) \/ R_classes(t) \/ R_unlock(t) \/ R_emit(t) \/ R_except(t)

SetDirectoryData(t) == S_lock(t) \/ S_assign(t) \/ S_unlock(t)

GetSnapshot(t) == snapshot_begin(t) \/ G_lock(t) \/ G_copy(t) \/ G_unlock(t)

Next ==
    \E t \in Threads :
        \/ \E p \in Range(walk), c \in EditContents : on_modified(t, p, c)
        \/ Reanalyze(t)
        \/ full_build(t) \/ replace_empty(t) \/ SetDirectoryData(t)
        \/ GetSnapshot(t)

\* the store under its three operations and the watcher
Spec == Init /\ [][Next]_vars

NextProject == Next \/ \E t \in Threads : project_build(t) \/ P_assign(t)

\* the same with create_new_project
SpecProject == Init /\ [][NextProject]_vars

----------------------------------------------------------------------------
(* The parser on its own: change events for a file that is not rewritten   *)

\* on_modified for a file whose content is as it was (a touch, the second
\* event of one save): app.py:67-76
touch(t, p) ==
    /\ Begin(t)
    /\ p.ext = ".py"
    /\ Fresh(t, [Locals EXCEPT !.file_path = p])
    /\ Goto(t, "R_parse")
    /\ UNCHANGED <<mon, walk, fs, directory_data, lock, committed>>

ParseContents ==
    {C_fg, C_f, C_cls, C_nested, C_branch, C_util, C_main, C_empty, C_syntax, C_binary, C_missing}

ParseInit ==
    /\ \E p \in {A_py, Pkg_a_py}, c \in ParseContents :
          /\ walk = <<p>>
          /\ fs = [q \in {p} |-> c]
    /\ directory_data = EmptyDict
    /\ lock = NoThread
    /\ pc = [t \in Threads |-> "idle"]
    /\ loc = [t \in Threads |-> Locals]
    /\ notified = [t \in Threads |-> << >>]
    /\ committed = EmptyDict
    /\ ops = 0
    /\ MonInit

NextParse == \E t \in Threads : (\E p \in Range(walk) : touch(t, p)) \/ Reanalyze(t)

\* threads of reanalyze_file on one file that nobody writes
SpecParse == ParseInit /\ [][NextParse]_vars

----------------------------------------------------------------------------
(* Callers that write to the snapshot they were given *)

\* the three in-place writes: snapshot['nodes'].clear(), snapshot['edges'].clear()
\* and snapshot['nodes'][0]['code'] = "mutated"
Mutated(d, kind) ==
    IF kind = "nodes" THEN Put(d, "nodes", << >>)
    ELSE IF kind = "edges" THEN Put(d, "edges", << >>)
    ELSE Put(d, "nodes", [d["nodes"] EXCEPT ![1].code = "mutated"])

CanMutate(d, kind) ==
    IF kind = "items"
    THEN "nodes" \in DOMAIN d /\ d["nodes"] # << >> /\ d["nodes"][1].code # "mutated"
    ELSE kind \in DOMAIN d /\ d[kind] # << >>

\* two references reach the same object of the kind
Shares(objs1, objs2, kind) == \E o \in objs1 \cap objs2 : o[2] = kind

\* the caller of get_directory_data_snapshot writes to what it was returned;
\* the write shows through every reference to the object written
mutate_snapshot(t, kind) ==
    /\ pc[t] = "done"
    /\ loc[t].objs # {}
    /\ CanMutate(loc[t].snapshot, kind)
    /\ loc' = [u \in Threads |->
                 IF u = t \/ Shares(loc[u].objs, loc[t].objs, kind)
                 THEN [loc[u] EXCEPT !.snapshot = Mutated(@, kind)]
                 ELSE loc[u]]
    /\ directory_data' =
          IF Shares(StoreObjs, loc[t].objs, kind) THEN Mutated(directory_data, kind)
          ELSE directory_data
    /\ UNCHANGED <<mon, walk, fs, lock, pc, notified, committed, ops>>

\* merges, full builds with their replacement, snapshots and the callers' writes
NextCallers ==
    \E t \in Threads :
        \/ \E p \in Range(walk), c \in EditContents : on_modified(t, p, c)
        \/ Reanalyze(t)
        \/ full_build(t) \/ SetDirectoryData(t)
        \/ GetSnapshot(t)
        \/ \E kind \in {"nodes", "edges", "items"} : mutate_snapshot(t, kind)

\* the store with callers that write to their snapshots
SpecCallers == Init /\ [][NextCallers]_vars

----------------------------------------------------------------------------
(* The full build on its own: analyze_directory over a choice of trees     *)

BuildFiles == 3
MaxExtra == 2

Util_py == Path(Root, << >>, "util", ".py")
Main_py == Path(Root, << >>, "main", ".py")
Notes_txt == Path(Root, << >>, "notes", ".txt")
Cache_py == Path(Root, <<"__pycache__">>, "util", ".py")

\* util.py, main.py, pkg/util.py, pkg/main.py, pkg/pkg/util.py, ...
RECURSIVE Pkg(_)
Pkg(depth) == IF depth = 0 THEN << >> ELSE <<"pkg">> \o Pkg(depth - 1)
SmallPath(i) == Path(Root, Pkg((i - 1) \div 2), IF i % 2 = 1 THEN "util" ELSE "main", ".py")

\* a small tree: n source files, then a text file and a cached file
SmallWalk(n) == [i \in 1..n |-> SmallPath(i)] \o <<Notes_txt, Cache_py>>

Digit == <<"0", "1", "2", "3", "4", "5", "6", "7", "8", "9">>
GenPath(i) == Path(Root, << >>, "m" \o Digit[(i \div 10) + 1] \o Digit[(i % 10) + 1], ".py")

\* a large tree: n source files in one directory
LargeWalk(n) == [i \in 1..n |-> GenPath(i)]

\* the entries of a tree whose root is gone or closed; none can be opened
Relocated(w, root) == [i \in DOMAIN w |-> [w[i] EXCEPT !.root = root]]

BuildContents ==
    {C_fg, C_f, C_cls, C_nested, C_dup, C_calls, C_util, C_main, C_empty, C_syntax, C_binary,
     C_missing}
OddContents == {C_fg, C_empty, C_syntax, C_missing}

BuildInit ==
    /\ \/ \E n \in 0..BuildFiles :
             /\ walk = SmallWalk(n)
             /\ fs \in [Range(walk) -> BuildContents]
             /\ fs[Notes_txt] = C_binary
             /\ fs[Cache_py] = C_fg
       \/ \E n \in (FileCap - 1)..(FileCap + MaxExtra), k \in 1..(FileCap + MaxExtra),
             c \in OddContents :
             /\ k <= n
             /\ walk = LargeWalk(n)
             /\ fs = [p \in Range(walk) |-> IF p = GenPath(k) THEN c ELSE C_f]
       \/ \E n \in 0..BuildFiles, root \in Unscannable :
             /\ walk = Relocated(SmallWalk(n), root)
             /\ fs = [p \in Range(walk) |-> C_missing]
    /\ directory_data = EmptyDict
    /\ lock = NoThread
    /\ pc = [t \in Threads |-> "idle"]
    /\ loc = [t \in Threads |-> Locals]
    /\ notified = [t \in Threads |-> << >>]
    /\ committed = EmptyDict
    /\ ops = 0
    /\ MonInit

\* the build runs once on the tree
NextBuild == (ops = 0 /\ full_build(1)) \/ SetDirectoryData(1)

\* one request thread building the tree it is given and storing the result
SpecBuild == BuildInit /\ [][NextBuild]_vars

----------------------------------------------------------------------------
(* A build during which a file of the tree is written                      *)

EditedContents == {C_fg, C_f, C_dup, C_empty, C_syntax}

EditedInit ==
    /\ \E n \in 1..BuildFiles :
          /\ walk = SmallWalk(n)
          /\ fs \in [Range(walk) -> EditedContents \cup {C_binary}]
          /\ \A p \in Range(walk) : fs[p] = C_binary <=> p = Notes_txt
    /\ directory_data = EmptyDict
    /\ lock = NoThread
    /\ pc = [t \in Threads |-> "idle"]
    /\ loc = [t \in Threads |-> Locals]
    /\ notified = [t \in Threads |-> << >>]
    /\ committed = EmptyDict
    /\ ops = 0
    /\ MonInit

\* analyze_directory, app.py:624-762, with a write to p that lands after the
\* second pass has read the files and before the third pass parses them again
build_during_edit(t, p, c) ==
    /\ Begin(t)
    /\ p.ext = ".py"
    /\ c # fs[p]
    /\ fs' = [fs EXCEPT ![p] = c]
    /\ LET analyzed == analyze_directory(walk, fs, fs, fs')
       IN  IF analyzed.raised
           THEN Goto(t, "done") /\ Fresh(t, Locals)
           ELSE Goto(t, "S_lock") /\ Fresh(t, [Locals EXCEPT !.new_data = analyzed.graph])
    /\ UNCHANGED <<mon, walk, directory_data, lock, committed>>

NextEdited ==
    \/ ops = 0 /\ \E p \in Range(walk), c \in EditedContents : build_during_edit(1, p, c)
    \/ SetDirectoryData(1)

\* one build of a tree in which one file changes under it
SpecEdited == EditedInit /\ [][NextEdited]_vars

----------------------------------------------------------------------------
(* Properties of the full build, checked under SpecBuild.  The graph        *)
(* analyze_directory returned is new_data of the thread at S_lock.          *)

IsFile(n) == n.type = "file"
IsMember(n) == n.type \in {"function", "class"}

\* the ids of the file nodes of a graph, in order
FileIdsOf(g) ==
    LET file_nodes == SelectSeq(g.nodes, IsFile)
    IN  [i \in DOMAIN file_nodes |-> file_nodes[i].id]

\* the files analyze_directory goes through, and those it reads as source text
Discovered == ListFiles(walk)
Readable(p) == fs[p].exists /\ fs[p].decodes /\ fs[p].syntax_ok
Analysable(p) == Readable(p) /\ fs[p].text # ""

\* C4: in every graph analyze_directory returns, the part before "::" of each
\* function or class node's id is the id of exactly one file node of that graph
C4_Containment ==
    \A t \in Threads :
        pc[t] = "S_lock" =>
            LET nodes == loc[t].new_data.nodes
            IN  \A i \in DOMAIN nodes :
                    IsMember(nodes[i]) =>
                        Cardinality({j \in DOMAIN nodes :
                                        IsFile(nodes[j]) /\ nodes[j].id = IdPrefix(nodes[i].id)}) = 1

\* a returned graph with a function of a nested file, a class and two file nodes
C4_Witness ==
    \E t \in Threads :
        /\ pc[t] = "S_lock"
        /\ LET nodes == loc[t].new_data.nodes
           IN  /\ \E i \in DOMAIN nodes : nodes[i].type = "function" /\ nodes[i].id.file.dirs # << >>
               /\ \E i \in DOMAIN nodes : nodes[i].type = "class"
               /\ Len(FileIdsOf(loc[t].new_data)) >= 2

\* C5 as stated: with more than 50 source files in the tree, the file nodes are
\* those of the first 50 files in walk order, all 50 of them, in that order
C5_CapFirstFifty ==
    \A t \in Threads :
        (pc[t] = "S_lock" /\ Len(Discovered) > FileCap) =>
            FileIdsOf(loc[t].new_data) = [i \in 1..FileCap |-> FileId(relpath(Discovered[i]))]

\* C5 amended: with more than 50 source files in the tree, the file nodes are
\* those of the files among the first 50 in walk order that are read and parsed
\* to a non-empty content, in walk order; no file after the 50th has a node
C5_CapAnalysedFirstFifty ==
    \A t \in Threads :
        (pc[t] = "S_lock" /\ Len(Discovered) > FileCap) =>
            LET kept == SelectSeq(SubSeq(Discovered, 1, FileCap), Analysable)
            IN  FileIdsOf(loc[t].new_data) = [i \in DOMAIN kept |-> FileId(relpath(kept[i]))]

\* more than 50 files, 50 file nodes, the last one for the 50th file
C5_Witness ==
    \E t \in Threads :
        /\ pc[t] = "S_lock"
        /\ Len(Discovered) > FileCap
        /\ Len(FileIdsOf(loc[t].new_data)) = FileCap
        /\ FileIdsOf(loc[t].new_data)[FileCap] = FileId(relpath(Discovered[FileCap]))

\* the function nodes of a graph that carry a name
Callees(g, name) == {i \in DOMAIN g.nodes : g.nodes[i].type = "function" /\ g.nodes[i].name = name}

\* the tree of the end-to-end scenario and what the build must return for it
IsScenario == Discovered = <<Util_py, Main_py>> /\ fs[Util_py] = C_util /\ fs[Main_py] = C_main
ScenarioResult(g) ==
    /\ Len(SelectSeq(g.nodes, IsFile)) = 2
    /\ {n.id : n \in {m \in Range(g.nodes) : m.type = "function"}}
          = {MemberId(relpath(Util_py), "helper"), MemberId(relpath(Main_py), "run")}
    /\ Len(g.nodes) = 4
    /\ Len(g.edges) = 2
    /\ \A i \in Callees(g, "helper") : g.nodes[i].called_by = <<MemberId(relpath(Main_py), "run")>>

\* C6 as stated: whenever a function C of an analysed file A contains a call of
\* a name, every function node D of that name (of any file) has A::C in
\* called_by; and the scenario gives 2 file nodes, 2 function nodes, 2 edges
C6_CallLinkage ==
    \A t \in Threads :
        pc[t] = "S_lock" =>
            LET g == loc[t].new_data
                files == CapFiles(Discovered)
            IN  /\ \A k \in DOMAIN files :
                       Analysable(files[k]) =>
                           LET ast == fs[files[k]].ast
                           IN  \A i, j \in DOMAIN ast :
                                   (/\ ast[i].kind = "FunctionDef"
                                    /\ ast[j].kind = "Call"
                                    /\ ast[j].name # ""
                                    /\ ast[j].within = i) =>
                                       \A d \in Callees(g, ast[j].name) :
                                           MemberId(relpath(files[k]), ast[i].name)
                                               \in Range(g.nodes[d].called_by)
                /\ IsScenario => ScenarioResult(g)

\* C6 amended: the caller is the function of A whose definition line is the
\* greatest one not after the call's line, whatever the nesting
C6_CallLinkageByLine ==
    \A t \in Threads :
        pc[t] = "S_lock" =>
            LET g == loc[t].new_data
                files == CapFiles(Discovered)
            IN  /\ \A k \in DOMAIN files :
                       Analysable(files[k]) =>
                           LET ast == fs[files[k]].ast
                           IN  \A i, j \in DOMAIN ast :
                                   (/\ ast[i].kind = "FunctionDef"
                                    /\ ast[j].kind = "Call"
                                    /\ ast[j].name # ""
                                    /\ ast[i].lineno <= ast[j].lineno
                                    /\ ~\E i2 \in DOMAIN ast :
                                           /\ ast[i2].kind = "FunctionDef"
                                           /\ ast[i2].lineno > ast[i].lineno
                                           /\ ast[i2].lineno <= ast[j].lineno) =>
                                       \A d \in Callees(g, ast[j].name) :
                                           MemberId(relpath(files[k]), ast[i].name)
                                               \in Range(g.nodes[d].called_by)
                /\ IsScenario => ScenarioResult(g)

\* the scenario has been built, with helper called from another file
C6_Witness ==
    \E t \in Threads :
        /\ pc[t] = "S_lock"
        /\ IsScenario
        /\ \E n \in Range(loc[t].new_data.nodes) :
               /\ n.id = MemberId(relpath(Util_py), "helper")
               /\ n.called_by = <<MemberId(relpath(Main_py), "run")>>

\* C7: a file that fails to decode or has invalid syntax contributes no node
\* and no edge, and every other discovered file still has its file node and a
\* node for each of its definitions
C7_UnparseableSkip ==
    \A t \in Threads :
        pc[t] = "S_lock" =>
            LET g == loc[t].new_data
                files == CapFiles(Discovered)
                Bad(p) == fs[p].exists /\ ~(fs[p].decodes /\ fs[p].syntax_ok)
            IN  (\E k \in DOMAIN files : Bad(files[k])) =>
                    \A k \in DOMAIN files :
                        LET p == files[k]
                            mine == {i \in DOMAIN g.nodes : g.nodes[i].file_path = p}
                        IN  IF Bad(p)
                            THEN /\ mine = {}
                                 /\ \A e \in Range(g.edges) : e.source # FileId(relpath(p))
                            ELSE /\ Cardinality({i \in mine : IsFile(g.nodes[i])}) = 1
                                 /\ \A a \in DOMAIN fs[p].ast :
                                        fs[p].ast[a].kind \in {"FunctionDef", "ClassDef"} =>
                                            \E i \in mine :
                                                /\ IsMember(g.nodes[i])
                                                /\ g.nodes[i].name = fs[p].ast[a].name

----------------------------------------------------------------------------
(* Properties of the store, checked under Spec and SpecProject              *)

IdsOf(d) == {n.id : n \in Range(d["nodes"])}

\* every edge of the graph joins two nodes of the graph
WellFormed(d) ==
    ("nodes" \in DOMAIN d /\ "edges" \in DOMAIN d) =>
        \A e \in Range(d["edges"]) : e.source \in IdsOf(d) /\ e.target \in IdsOf(d)

\* the function nodes of name `name` that a graph holds for the file at file_path
FunctionsFor(d, file_path, name) ==
    {i \in DOMAIN d["nodes"] :
        /\ d["nodes"][i].type = "function"
        /\ d["nodes"][i].file_path = file_path
        /\ d["nodes"][i].name = name}

\* thread t has left the critical section of a merge, or is leaving it
MergeDone(t) == pc[t] \in {"R_unlock", "R_emit"} \/ (pc[t] = "done" /\ loc[t].merged # EmptyDict)

\* C1: when the graph holds the nodes analyze_directory built for a file with
\* functions f and g, and reanalyze_file merges that file with only f defined,
\* the graph then holds no node for its g and exactly one node for its f.  At
\* R_unlock the merge is complete and committed is the graph it started from.
C1_MergeReplaces ==
    \A t \in Threads :
        LET file_path == loc[t].file_path
            rel_name == relpath(file_path)
        IN  (/\ pc[t] = "R_unlock"
             /\ "nodes" \in DOMAIN committed
             /\ {MemberId(rel_name, "f"), MemberId(rel_name, "g")} \subseteq IdsOf(committed)
             /\ {func.name : func \in Range(loc[t].parsed.functions)} = {"f"}) =>
                /\ FunctionsFor(directory_data, file_path, "g") = {}
                /\ Cardinality(FunctionsFor(directory_data, file_path, "f")) = 1

\* C2: between critical sections the store has no dangling edge, and no
\* snapshot returned has one
C2_NoDanglingEdge ==
    /\ lock = NoThread => WellFormed(directory_data)
    /\ \A t \in Threads : WellFormed(loc[t].snapshot)

\* a merge into a built graph is over, and a snapshot with edges has been taken
C2_Witness ==
    /\ lock = NoThread
    /\ "edges" \in DOMAIN directory_data
    /\ directory_data["edges"] # << >>
    /\ \E t \in Threads : MergeDone(t) /\ Len(loc[t].merged["nodes"]) > 3
    /\ \E t \in Threads : pc[t] = "done" /\ "edges" \in DOMAIN loc[t].snapshot
                          /\ loc[t].snapshot["edges"] # << >>

\* C3: a snapshot is the graph as a critical section left it: the graph before
\* the merge in progress or the graph after it, never one in between
C3_SnapshotAtomic ==
    \A t \in Threads : pc[t] = "G_unlock" => loc[t].snapshot = committed

\* a snapshot of a built graph taken while a merge waits for the lock
C3_Witness ==
    \E t, m \in Threads :
        /\ pc[t] = "G_unlock"
        /\ pc[m] = "R_lock"
        /\ "nodes" \in DOMAIN loc[t].snapshot
        /\ loc[t].snapshot["nodes"] # << >>

\* reading or parsing the file of thread t fails
ParseFails(t) ==
    LET c == fs[loc[t].file_path] IN ~c.exists \/ ~c.decodes \/ ~c.syntax_ok

\* C8: when the parse of reanalyze_file fails, the thread's steps leave the
\* graph as it is, take no lock, emit nothing and end the call (the exception
\* is handled at line 147), after which the thread can take up the next event
C8_FailedMergeSkipped ==
    [][\A t \in Threads :
          /\ (pc[t] = "R_parse" /\ pc'[t] # "R_parse" /\ ParseFails(t)) =>
                 /\ pc'[t] \in {"R_except", "done"}
                 /\ directory_data' = directory_data
                 /\ lock' = lock
                 /\ notified'[t] = << >>
          /\ (pc[t] = "R_except" /\ pc'[t] # "R_except") =>
                 /\ pc'[t] = "done"
                 /\ directory_data' = directory_data
                 /\ lock' = lock
                 /\ notified'[t] = << >>]_vars

\* a call on a file with invalid syntax has ended, and the graph still holds
\* the nodes of the build
C8_Witness ==
    \E t \in Threads :
        /\ pc[t] = "done"
        /\ loc[t].file_path # NoPath
        /\ fs[loc[t].file_path] = C_syntax
        /\ loc[t].parsed = Unparseable
        /\ "nodes" \in DOMAIN directory_data
        /\ Len(directory_data["nodes"]) = 6

\* the positions at which the next step of a thread reads or writes directory_data
GraphAccess ==
    {"R_init", "R_nodes", "R_edges", "R_file", "R_funcs", "R_classes", "R_emit",
     "S_assign", "G_copy", "P_assign"}

\* C9: a thread about to read or assign the shared graph holds directory_data_lock
C9_LockDiscipline ==
    \A t \in Threads : pc[t] \in GraphAccess => lock = t

\* C10: after a successful reanalyze_file exactly one file_changed event has
\* been emitted, with the file's name, kind "modified" and the graph as the
\* merge left it
C10_NotificationIsMergeSnapshot ==
    \A t \in Threads :
        (pc[t] = "done" /\ loc[t].merged # EmptyDict) =>
            /\ Len(notified[t]) = 1
            /\ notified[t][1].filename = basename(loc[t].file_path)
            /\ notified[t][1].type = "modified"
            /\ notified[t][1].data = loc[t].merged

----------------------------------------------------------------------------
(* Properties of snapshots in the hands of their callers, under SpecCallers *)

\* thread t has been returned a snapshot
Returned(t) == pc[t] = "done" /\ loc[t].objs # {}

\* what the caller reads through its reference: the live graph when the
\* reference is the store's own dict
View(t) == IF <<NoThread, "dict">> \in loc[t].objs THEN directory_data ELSE loc[t].snapshot

\* C11: a returned snapshot shares no object with the store or with another
\* snapshot; a step that changes the store (a merge, a replacement) changes no
\* returned snapshot, and a step that changes one returned snapshot (its
\* caller's write) changes neither the store nor another snapshot
C11_SnapshotIndependent ==
    /\ [](\A t \in Threads : Returned(t) =>
            /\ loc[t].objs \cap StoreObjs = {}
            /\ \A u \in Threads \ {t} : Returned(u) => loc[t].objs \cap loc[u].objs = {})
    /\ [][\A t \in Threads : (Returned(t) /\ pc'[t] = "done") =>
            /\ directory_data' # directory_data => View(t)' = View(t)
            /\ \A u \in Threads \ {t} :
                  (Returned(u) /\ pc'[u] = "done" /\ View(u)' # View(u)) => View(t)' = View(t)]_vars

\* a caller was returned a snapshot of the built graph, a merge then changed
\* the store, and the caller emptied the nodes list of its snapshot: the
\* snapshot keeps its edges and the store is the graph the merge left
C11_Witness ==
    \E t, u \in Threads :
        /\ Returned(t)
        /\ "nodes" \in DOMAIN loc[t].snapshot /\ loc[t].snapshot["nodes"] = << >>
        /\ Len(loc[t].snapshot["edges"]) = 4
        /\ pc[u] = "done" /\ loc[u].merged # EmptyDict
        /\ directory_data = loc[u].merged
        /\ Len(directory_data["nodes"]) > 3

----------------------------------------------------------------------------
(* Further properties of the store, checked under Spec *)

\* C12: a snapshot copied while the store is still the dict of line 27, before
\* any replacement or merge, is the empty graph: a nodes key with an empty
\* sequence and an edges key with an empty sequence
C12_InitialSnapshotEmptyGraph ==
    \A t \in Threads :
        (pc[t] = "G_unlock" /\ directory_data = EmptyDict) => loc[t].snapshot = EmptyGraph

\* how many times x occurs in the sequence s
Count(s, x) == Cardinality({i \in DOMAIN s : s[i] = x})

\* the edges of d are its containment edges and nothing else: as many edges
\* file id -> member id as there are member nodes with that id, each from the
\* id of a file node of d
ContainmentOnly(d) ==
    ("nodes" \in DOMAIN d /\ "edges" \in DOMAIN d) =>
        LET members == SelectSeq(d["nodes"], IsMember)
            expected == [k \in DOMAIN members |->
                            Edge(IdPrefix(members[k].id), members[k].id)]
        IN  /\ Len(d["edges"]) = Len(expected)
            /\ \A e \in Range(d["edges"]) \cup Range(expected) :
                   Count(d["edges"], e) = Count(expected, e)
            /\ \A e \in Range(d["edges"]) :
                   \E n \in Range(d["nodes"]) : IsFile(n) /\ n.id = e.source

\* C14: every graph analyze_directory returns, and the store after every
\* replacement and merge, has the containment edges as its only edges: one
\* edge file id -> member id for each function or class node
C14_EdgesAreContainment ==
    /\ lock = NoThread => ContainmentOnly(directory_data)
    /\ \A t \in Threads : ContainmentOnly(loc[t].new_data)

\* a merge has added a class to a built graph in which g calls f: the call is
\* in called_by and the graph has one edge for each of its members
C14_Witness ==
    /\ lock = NoThread
    /\ \E t \in Threads : pc[t] = "done" /\ loc[t].merged # EmptyDict
                          /\ loc[t].merged = directory_data
    /\ \E n \in Range(directory_data["nodes"]) : n.type = "class"
    /\ \E n \in Range(directory_data["nodes"]) : n.type = "function" /\ n.called_by # << >>
    /\ Len(directory_data["edges"]) = 4

\* the nodes with called_by emptied where they have one
Blank(nodes) ==
    [k \in DOMAIN nodes |->
        IF "called_by" \in DOMAIN nodes[k] THEN [nodes[k] EXCEPT !.called_by = << >>]
        ELSE nodes[k]]

\* the last n elements of a sequence
Tail_n(seq, n) == SubSeq(seq, Len(seq) - n + 1, Len(seq))

\* C17: at the end of a merge of a file that was not rewritten since it was
\* parsed, the nodes and edges the merge appended are those analyze_directory
\* builds for that file under the same root, but for called_by
C17_MergeMatchesBuild ==
    \A t \in Threads :
        LET file_path == loc[t].file_path
        IN  (pc[t] = "R_unlock" /\ fs[file_path].text = loc[t].parsed.content) =>
                LET built == analyze_directory(<<file_path>>, fs, fs, fs).graph
                IN  /\ Blank(Tail_n(directory_data["nodes"], Len(built.nodes)))
                          = Blank(built.nodes)
                    /\ Tail_n(directory_data["edges"], Len(built.edges)) = built.edges

\* C18: at the end of a merge of file F, the nodes the graph held before the
\* merge for the other files of the tree, and the edges from those nodes, are
\* all there, unchanged and in their order.  committed is the graph before
\* the merge.
C18_MergeFrame ==
    \A t \in Threads :
        (pc[t] = "R_unlock" /\ "nodes" \in DOMAIN committed) =>
            LET OfOther(n) == n.file_path # loc[t].file_path
                other_ids == {n.id : n \in {m \in Range(committed["nodes"]) : OfOther(m)}}
                FromOther(e) == e.source \in other_ids
            IN  /\ SelectSeq(directory_data["nodes"], OfOther)
                      = SelectSeq(committed["nodes"], OfOther)
                /\ SelectSeq(directory_data["edges"], FromOther)
                      = SelectSeq(committed["edges"], FromOther)

----------------------------------------------------------------------------
(* Further properties of the full build, checked under SpecBuild *)

\* the build has run and an exception left analyze_directory: the request
\* ended without a replacement
BuildRaised == ops > 0 /\ pc[1] = "done" /\ directory_data = EmptyDict

\* the root of the tree cannot be scanned
RootLost == \A i \in DOMAIN walk : walk[i].root \in Unscannable

\* C13: for a root directory that is missing or unreadable analyze_directory
\* does not raise and returns the graph with no node and no edge
C13_MissingRootEmptyGraph ==
    (RootLost /\ ops > 0) => ~BuildRaised /\ loc[1].new_data = EmptyGraph

\* the build of a lost tree that had source files has returned
C13_Witness ==
    /\ RootLost
    /\ \E i \in DOMAIN walk : walk[i].ext = ".py" /\ walk[i].dirs = << >>
    /\ pc[1] = "S_lock"
    /\ loc[1].new_data = EmptyGraph

----------------------------------------------------------------------------
(* Properties of parse_python_file, checked under SpecParse *)

\* thread t holds what parse_python_file returned for its file
Parsed(t) == loc[t].file_path # NoPath /\ pc[t] \notin {"R_parse", "R_except"}

\* the syntax tree of the file of thread t
TreeOf(t) == fs[loc[t].file_path].ast

\* the members of S, positions of a tree, by increasing line
SourceOrder(ast, S) ==
    CHOOSE s \in [1..Cardinality(S) -> S] :
        \A a, b \in 1..Cardinality(S) : a < b => ast[s[a]].lineno < ast[s[b]].lineno

\* the entries of the returns at the positions s, with the given placeholder
Entries(ast, s, placeholder) ==
    [k \in DOMAIN s |-> IF ast[s[k]].name = "bare" THEN placeholder ELSE ast[s[k]].src]

\* C15 as stated: the returns of a function record are the return statements
\* of the function by increasing line, a bare return giving "<none>"
C15_ReturnsInSourceOrder ==
    \A t \in Threads : Parsed(t) =>
        LET ast == TreeOf(t)
            defs == Positions(ast, "FunctionDef", 1)
        IN  \A k \in DOMAIN loc[t].parsed.functions :
                loc[t].parsed.functions[k].returns =
                    Entries(ast,
                            SourceOrder(ast, {j \in DOMAIN ast : ast[j].kind = "Return"
                                                               /\ ast[j].within = defs[k]}),
                            "<none>")

\* C15: the returns of a function record are the return statements under the
\* function, those of nested definitions included, in the order of ast.walk,
\* a bare return giving "None"
C15_ReturnsInWalkOrder ==
    \A t \in Threads : Parsed(t) =>
        LET ast == TreeOf(t)
            defs == Positions(ast, "FunctionDef", 1)
        IN  \A k \in DOMAIN loc[t].parsed.functions :
                LET Under(j) == Inside(ast, defs[k], j)
                IN  loc[t].parsed.functions[k].returns =
                        Entries(ast, SelectSeq(Positions(ast, "Return", 1), Under), "None")

\* the file with returns at two depths has been parsed
C15_Witness ==
    \E t \in Threads :
        /\ Parsed(t)
        /\ fs[loc[t].file_path] = C_branch
        /\ Len(loc[t].parsed.functions) = 2
        /\ loc[t].parsed.functions[1].returns = <<"None", "return 2", "return 1">>

----------------------------------------------------------------------------
(* Properties of the ids and the callers of a built graph, under SpecBuild *)

\* the definitions parse_python_file finds in a file, in the order the third
\* pass goes through them: the functions, then the classes
DefinitionsOf(p) ==
    LET parsed == parse_python_file(p, fs[p]) IN parsed.functions \o parsed.classes

\* C19: a graph analyze_directory returned holds no two nodes with the same
\* id, and the node of a name defined more than once in a file carries the
\* code of the definition discovered last
C19_NodeIdUnique ==
    pc[1] = "S_lock" =>
        LET nodes == loc[1].new_data.nodes
        IN  /\ \A i, j \in DOMAIN nodes : i # j => nodes[i].id # nodes[j].id
            /\ \A i \in DOMAIN nodes : IsMember(nodes[i]) =>
                   LET defs == DefinitionsOf(nodes[i].file_path)
                       Named(d) == d.name = nodes[i].name
                       same == SelectSeq(defs, Named)
                   IN  nodes[i].code = same[Len(same)].code

\* the function definitions of a tree at or above line L
DefsAbove(ast, L) == {i \in DOMAIN ast : ast[i].kind = "FunctionDef" /\ ast[i].lineno <= L}

\* the ids the calls of `name` in the analysed files are attributed to: for a
\* call at line L of file p, the function of p defined at the greatest line
\* <= L; a call above every definition of its file gives none
AttributedCallers(name) ==
    LET files == CapFiles(Discovered)
        CallersIn(p) ==
            LET ast == fs[p].ast
            IN  {MemberId(relpath(p), ast[i].name) :
                    i \in {d \in DOMAIN ast :
                              \E j \in DOMAIN ast :
                                  /\ ast[j].kind = "Call"
                                  /\ ast[j].name = name
                                  /\ d \in DefsAbove(ast, ast[j].lineno)
                                  /\ \A i2 \in DefsAbove(ast, ast[j].lineno) :
                                         ast[i2].lineno <= ast[d].lineno}}
    IN  UNION {CallersIn(p) : p \in {q \in Range(files) : Analysable(q)}}

\* C20: in a graph analyze_directory returned, called_by of a function node
\* holds exactly the callers that the calls of its name are attributed to by
\* definition line, whatever the nesting
C20_CallerByLine ==
    pc[1] = "S_lock" =>
        \A n \in Range(loc[1].new_data.nodes) :
            n.type = "function" => Range(n.called_by) = AttributedCallers(n.name)

\* f is called from a method, from the module level above every definition
\* and from an outer function below a nested one: its callers are the method
\* and the nested function
C20_Witness ==
    /\ pc[1] = "S_lock"
    /\ \E p, q \in Range(CapFiles(Discovered)) :
          /\ fs[p] = C_cls
          /\ fs[q] = C_nested
          /\ \E n \in Range(loc[1].new_data.nodes) :
                 /\ n.type = "function"
                 /\ n.name = "f"
                 /\ Range(n.called_by)
                       = {MemberId(relpath(n.file_path), "g"), MemberId(relpath(p), "m"),
                          MemberId(relpath(q), "inner")}

\* the place at which the build first discovers a call of `name` attributed to
\* the function `caller`: the analysed files in walk order, the calls of a
\* file in the order of ast.walk; 0 when there is no such call
FirstSeen(name, caller) ==
    LET files == CapFiles(Discovered)
        Width == 100
        At(k) ==
            LET ast == fs[files[k]].ast
            IN  {j \in DOMAIN ast :
                    /\ ast[j].kind = "Call"
                    /\ ast[j].name = name
                    /\ \E d \in DefsAbove(ast, ast[j].lineno) :
                           /\ MemberId(relpath(files[k]), ast[d].name) = caller
                           /\ \A d2 \in DefsAbove(ast, ast[j].lineno) :
                                  ast[d2].lineno <= ast[d].lineno}
        seen == {k * Width + j : k \in {i \in DOMAIN files : Analysable(files[i])}, j \in 1..(Width - 1)}
        places == {pl \in seen : (pl % Width) \in At(pl \div Width)}
    IN  IF places = {} THEN 0 ELSE CHOOSE pl \in places : \A q \in places : pl <= q

\* C21: in every function node of a graph analyze_directory returned, called_by
\* holds no id twice and lists the callers in the order of their first
\* discovery: files in walk order, calls in the order of ast.walk
C21_CalledByOrdered ==
    pc[1] = "S_lock" =>
        \A n \in Range(loc[1].new_data.nodes) :
            n.type = "function" =>
                \A i, j \in DOMAIN n.called_by :
                    i < j => /\ n.called_by[i] # n.called_by[j]
                             /\ FirstSeen(n.name, n.called_by[i]) > 0
                             /\ FirstSeen(n.name, n.called_by[i]) < FirstSeen(n.name, n.called_by[j])

\* f has three callers: g of an earlier file, then b (two calls) and a of a
\* later file, whose call comes first in the text and last in the walk
C21_Witness ==
    /\ pc[1] = "S_lock"
    /\ \E p, q \in Range(CapFiles(Discovered)) :
          /\ fs[p] = C_fg
          /\ fs[q] = C_calls
          /\ \E n \in Range(loc[1].new_data.nodes) :
                 /\ n.type = "function"
                 /\ n.file_path = q
                 /\ n.name = "f"
                 /\ n.called_by = <<MemberId(relpath(p), "g"), MemberId(relpath(q), "b"),
                                    MemberId(relpath(q), "a")>>

----------------------------------------------------------------------------
(* The store as a state machine, under Spec.  Its state is read where the  *)
(* lock is released: committed is the graph the last critical section left. *)

IsEmpty(d) == "nodes" \notin DOMAIN d \/ d["nodes"] = << >>

\* the step with which set_directory_data leaves its critical section, and the
\* one with which a merge does
Replaced(t) == pc[t] = "S_unlock" /\ pc'[t] = "done"
Merged(t) == pc[t] = "R_unlock" /\ pc'[t] = "R_emit"

\* C22 as stated: the store leaves Empty only through set_directory_data; a
\* merge takes a Loaded store to a Loaded store and never an Empty one to a
\* Loaded one; a Loaded store becomes Empty only by replacement with an empty
\* graph
C22_StoreStateMachine ==
    [][/\ (IsEmpty(committed) /\ ~IsEmpty(committed')) => \E t \in Threads : Replaced(t)
       /\ \A t \in Threads : Merged(t) => (IsEmpty(committed) <=> IsEmpty(committed'))
       /\ (~IsEmpty(committed) /\ IsEmpty(committed')) =>
              \E t \in Threads : Replaced(t) /\ IsEmpty(loc[t].new_data)]_vars

\* C22 amended: the store leaves Empty through set_directory_data or through
\* a merge; a merge always leaves the store Loaded; a replacement leaves it
\* Empty exactly when the new graph is empty; a Loaded store becomes Empty
\* only by replacement with an empty graph
C22_StoreStateMachineWithMerge ==
    [][/\ (IsEmpty(committed) /\ ~IsEmpty(committed')) =>
              \E t \in Threads : Replaced(t) \/ Merged(t)
       /\ \A t \in Threads : Merged(t) => ~IsEmpty(committed')
       /\ \A t \in Threads : Replaced(t) => (IsEmpty(committed') <=> IsEmpty(loc[t].new_data))
       /\ (~IsEmpty(committed) /\ IsEmpty(committed')) =>
              \E t \in Threads : Replaced(t) /\ IsEmpty(loc[t].new_data)]_vars

\* the first operation on the store was a merge: the store was Empty and is
\* Loaded with the nodes of the file
C22_Witness ==
    \E t \in Threads :
        /\ ops = 1
        /\ pc[t] = "R_emit"
        /\ ~IsEmpty(committed)

----------------------------------------------------------------------------
(* Failures inside the build, under SpecBuild *)

\* C23: analyze_directory returns a graph whatever reading and parsing the
\* discovered files gives, and the graph has the file node of every file that
\* could be analysed
C23_BuildNeverRaises ==
    /\ ~BuildRaised
    /\ pc[1] = "S_lock" =>
           \A p \in Range(CapFiles(Discovered)) :
               Analysable(p) => \E n \in Range(loc[1].new_data.nodes) : IsFile(n) /\ n.file_path = p

----------------------------------------------------------------------------
(* The records of the call resolution and the nodes, under SpecEdited *)

\* all_functions as the first two passes leave it for the files as they are
Resolver ==
    LET files == CapFiles(ListFiles(walk))
    IN  SecondPass([i |-> 1,
                    all_functions |-> FirstPass([i |-> 1, all_functions |-> EmptyDict], files, fs)],
                   files, fs)

\* C24: a function node of the returned graph whose id has a record in the
\* resolver carries the returns and called_by of that record; a node whose id
\* has none carries the returns of a definition of its name in the file as
\* parsed for the nodes, and an empty called_by
C24_ResolverRecordWins ==
    [][\A p \in Range(walk), c \in EditedContents :
          build_during_edit(1, p, c) =>
              \A n \in Range(loc'[1].new_data.nodes) :
                  n.type = "function" =>
                      IF n.id \in DOMAIN Resolver
                      THEN /\ n.returns = Resolver[n.id].returns
                           /\ n.called_by = Resolver[n.id].called_by
                      ELSE /\ n.called_by = << >>
                           /\ \E f \in Range(parse_python_file(n.file_path, fs'[n.file_path]).functions) :
                                  f.name = n.name /\ f.code = n.code /\ f.returns = n.returns]_vars

\* the graph holds a function node with a caller and with returns that no
\* definition of its name has in the file as it is now: its file was
\* rewritten after the resolver made the record
C24_Witness ==
    /\ pc[1] = "S_lock"
    /\ \E n \in Range(loc[1].new_data.nodes) :
          /\ n.type = "function"
          /\ n.called_by # << >>
          /\ \A f \in Range(parse_python_file(n.file_path, fs[n.file_path]).functions) :
                 f.name = n.name => f.returns # n.returns

----------------------------------------------------------------------------
(* Nested definitions, under SpecParse *)

\* the definition nodes of a kind in a tree
DefsOfKind(ast, kind) == {i \in DOMAIN ast : ast[i].kind = kind}

\* the records are those of the definitions of the kind, one for each, with
\* the name and the source text of the definition
RecordPerDefinition(records, ast, kind) ==
    /\ Len(records) = Cardinality(DefsOfKind(ast, kind))
    /\ \E at \in [DOMAIN records -> DefsOfKind(ast, kind)] :
          /\ \A k1, k2 \in DOMAIN records : k1 # k2 => at[k1] # at[k2]
          /\ \A k \in DOMAIN records :
                 records[k].name = ast[at[k]].name /\ records[k].code = ast[at[k]].src

----------------------------------------------------------------------------
(* Files with no content, under SpecBuild *)

\* C26: the graph analyze_directory returned has exactly one file node for
\* every discovered file within the cap that was read and parsed without
\* error, a zero-length file included
C26_ReadableFileHasNode ==
    pc[1] = "S_lock" =>
        \A p \in Range(CapFiles(Discovered)) :
            Readable(p) =>
                Cardinality({i \in DOMAIN loc[1].new_data.nodes :
                                /\ IsFile(loc[1].new_data.nodes[i])
                                /\ loc[1].new_data.nodes[i].file_path = p}) = 1

----------------------------------------------------------------------------
(* Merges beside full builds, with threads that are not starved            *)

\* a tree of two files of the root directory, a.py and util.py
LiveWalk == <<A_py, Util_py>>

LiveInit ==
    /\ walk = LiveWalk
    /\ fs = [p \in Range(LiveWalk) |-> C_fg]
    /\ directory_data = EmptyDict
    /\ lock = NoThread
    /\ pc = [t \in Threads |-> "idle"]
    /\ loc = [t \in Threads |-> Locals]
    /\ notified = [t \in Threads |-> << >>]
    /\ committed = EmptyDict
    /\ ops = 0
    /\ MonInit

\* the watcher's merges beside full builds with their replacement
NextLive ==
    \E t \in Threads :
        \/ \E p \in Range(walk), c \in EditContents : on_modified(t, p, c)
        \/ Reanalyze(t)
        \/ full_build(t) \/ SetDirectoryData(t)

\* a thread that has started on an operation goes on with it: the threads are
\* scheduled by the interpreter and none of them waits for anything but the lock
Continue(t) == Reanalyze(t) \/ SetDirectoryData(t)

SpecLive == LiveInit /\ [][NextLive]_vars /\ \A t \in Threads : WF_vars(Continue(t))

----------------------------------------------------------------------------
(* The latest content of a modified file, under SpecLive *)

\* the graph holds the file node of p with the content p has now, and a node
\* with the source text of every function p defines now
HoldsLatest(p) ==
    /\ "nodes" \in DOMAIN directory_data
    /\ \E n \in Range(directory_data["nodes"]) :
          IsFile(n) /\ n.file_path = p /\ n.code = fs[p].text
    /\ \A f \in Range(parse_python_file(p, fs[p]).functions) :
          \E n \in Range(directory_data["nodes"]) :
              n.type = "function" /\ n.file_path = p /\ n.name = f.name /\ n.code = f.code

\* a merge of p has completed, and it was a merge of the content p has now
MergedLatest(p) ==
    \E t \in Threads :
        /\ loc[t].file_path = p
        /\ pc[t] \in {"R_emit", "done"}
        /\ loc[t].merged # EmptyDict
        /\ loc[t].parsed.content = fs[p].text

\* C27: once the merge of the last modification of a file has completed, the
\* graph holds the nodes of the file's content from some point on for ever,
\* whatever full build runs beside the merge
C27_LatestContentStays ==
    \A p \in Range(LiveWalk) : <>[](MergedLatest(p) => HoldsLatest(p))

----------------------------------------------------------------------------
(* switch_workspace, app.py:1311-1322, beside the watcher of the old root  *)

\* the workspace that was loaded and is watched, and the one switched to
OldWalk == LiveWalk
NewWalk == Relocated(LiveWalk, OtherRoot)

\* the old workspace has been built and stored and its observer runs
\* (index, app.py:1022-1028); walk is the tree of the new workspace
SwitchInit ==
    /\ walk = NewWalk
    /\ fs = [p \in Range(OldWalk) \cup Range(NewWalk) |-> C_fg]
    /\ directory_data = analyze_directory(OldWalk, fs, fs, fs).graph
    /\ committed = directory_data
    /\ lock = NoThread
    /\ pc = [t \in Threads |-> "idle"]
    /\ loc = [t \in Threads |-> Locals]
    /\ notified = [t \in Threads |-> << >>]
    /\ ops = 0
    /\ observers = <<[started |-> TRUE, stopped |-> FALSE, alive |-> TRUE, watches |-> {Root}]>>
    /\ file_observer = 1
    /\ current_monitoring_directory = Root

\* app.py:1311-1322: the build of the new directory; set_directory_data and
\* start_file_monitoring follow
switch_workspace(t) ==
    /\ Begin(t)
    /\ current_monitoring_directory = Root
    /\ \A u \in Threads : loc[u].directory = NoDir
    /\ LET analyzed == analyze_directory(walk, fs, fs, fs)
       IN  IF analyzed.raised
           THEN Goto(t, "done") /\ Fresh(t, Locals)
           ELSE /\ Goto(t, "S_lock")
                /\ Fresh(t, [Locals EXCEPT !.new_data = analyzed.graph, !.directory = OtherRoot])
    /\ UNCHANGED <<mon, walk, fs, directory_data, lock, committed>>

\* a file below a directory that a running observer watches is written: the
\* observer calls on_modified (app.py:67-76)
watched_modified(t, p, c) ==
    /\ \E o \in Running : p.root \in observers[o].watches
    /\ on_modified(t, p, c)

NextSwitch ==
    \E t \in Threads :
        \/ switch_workspace(t) \/ SetDirectoryData(t) \/ Monitoring(t)
        \/ \E p \in DOMAIN fs, c \in EditContents : watched_modified(t, p, c)
        \/ Reanalyze(t)

\* one switch of the workspace while files of both directories are written
SpecSwitch == SwitchInit /\ [][NextSwitch]_vars

\* thread t has switched the workspace: its set_directory_data has assigned
\* the graph of the new directory
Switched(t) ==
    /\ loc[t].directory = OtherRoot
    /\ pc[t] \in {"S_unlock", "M_check", "M_stop", "M_join", "M_dir", "M_new", "M_schedule",
                   "M_start", "done"}

\* C28: once a switch has replaced the graph, every node of the graph is the
\* node of a file below the new directory
C28_OnlyNewRoot ==
    (\E t \in Threads : Switched(t)) =>
        \A n \in Range(directory_data["nodes"]) : n.file_path.root = OtherRoot

----------------------------------------------------------------------------
(* The observers, under SpecMonitor *)

\* no call of start_file_monitoring or stop_file_monitoring is under way
NoCallUnderWay == \A t \in Threads : pc[t] \in {"idle", "done"}

\* C30: when the calls of start_file_monitoring and stop_file_monitoring made
\* so far have returned, at most one observer runs, and one that runs watches
\* current_monitoring_directory and nothing else
C30_OneObserver ==
    NoCallUnderWay =>
        /\ Cardinality(Running) <= 1
        /\ \A o \in Running : observers[o].watches = {current_monitoring_directory}

----------------------------------------------------------------------------
(* The callers listed in the graph after merges, under SpecLive *)

\* C29: in the graph as every critical section leaves it, each id listed in
\* called_by of a function node is the id of a function node of the graph
C29_CallersPresent ==
    "nodes" \in DOMAIN committed =>
        \A n \in Range(committed["nodes"]) :
            n.type = "function" =>
                \A caller \in Range(n.called_by) :
                    \E m \in Range(committed["nodes"]) : m.type = "function" /\ m.id = caller

====
